---- MODULE Spec2Model ----
(***************************************************************************)
(* Excel-Sheet-Analyser: the AmazonSalesAnalysis aggregation class and    *)
(* its report (amazon_sales_analysis.py), the column-mapped                *)
(* FlexibleDataAnalysis dashboard with its charts and presentation         *)
(* (launch.py), the Flask upload front end (app.py) and the FastAPI        *)
(* upload endpoint (api/main.py).                                          *)
(*                                                                         *)
(* Money is counted in cents and percentages in hundredths of a percent,   *)
(* so that pandas' round(2) is a rounding to an integer.  Arithmetic is    *)
(* exact; binary floating-point error is not modelled.                     *)
(***************************************************************************)
EXTENDS Integers, Sequences, FiniteSets, TLC

VARIABLES
    df,             \* AmazonSalesAnalysis.df: None or the loaded table
    call,           \* the AmazonSalesAnalysis method called last
    arg,            \* its argument (n of top_products), 0 otherwise
    ret,            \* its return value
    report,         \* the sheets of sales_analysis_report.xlsx as last written, or None
    png,            \* whether monthly_sales_trend(1).png has been written
    uploaded_file,  \* launch.main: the sheets of the uploaded workbook, None without one
    widgets,        \* launch.main: what the select boxes hold
    col_map,        \* launch.main: source column -> canonical field
    pc,             \* launch.main: the part of the script run that comes next
    tab1,           \* what process_tab1 showed in this run
    tab2,           \* what process_tab2 showed in this run
    analyzer,       \* a FlexibleDataAnalysis object, None before it is constructed
    figures,        \* matplotlib: the number of figures that are open
    last_call,      \* the method of analyzer called last, with its result
    fs,             \* app.py: the files on disk, path -> content
    now,            \* app.py: int(time.time())
    req             \* app.py: the upload requests, each with its locals

salesVars == <<df, call, arg, ret, report, png>>
chartVars == <<analyzer, figures, last_call>>
flexVars  == <<uploaded_file, widgets, col_map, pc, tab1, tab2, chartVars>>
webVars   == <<fs, now, req>>

\* Python's None.  Every table the analyzer holds has at least one row (load_data
\* fails on an empty sheet: NaT has no strftime), so the empty sequence is free.
None == <<>>

(***************************************************************************)
(* Numbers as pandas holds them: a value, NaN (missing) or inf.            *)
(***************************************************************************)
Num(x) == [kind |-> "num", v |-> x]
NaN    == [kind |-> "nan", v |-> 0]
Inf    == [kind |-> "inf", v |-> 0]

\* numpy's round for a non-negative quotient num/den: half to even.
RoundHalfEven(num, den) ==
    LET q == num \div den
        r == num % den
    IN  IF 2 * r < den THEN q
        ELSE IF 2 * r > den THEN q + 1
        ELSE IF q % 2 = 0 THEN q ELSE q + 1

\* float division x / y of non-negative numbers, then .round(2), in hundredths
\* when x and y are in the same unit and scale is 100 (a ratio) or in cents
\* when scale is 1 (a price).
Divide(x, y, scale) ==
    IF y = 0 THEN (IF x = 0 THEN NaN ELSE Inf)
    ELSE Num(RoundHalfEven(x * scale, y))

\* The sum of a sequence of numbers, by halves
RECURSIVE SumSeq(_)
SumSeq(s) ==
    IF s = <<>> THEN 0
    ELSE IF Len(s) = 1 THEN s[1]
    ELSE SumSeq(SubSeq(s, 1, Len(s) \div 2)) + SumSeq(SubSeq(s, (Len(s) \div 2) + 1, Len(s)))

\* Series.sum(): NaN entries are skipped (skipna=True).
RECURSIVE SumSkipNa(_)
SumSkipNa(s) ==
    IF s = <<>> THEN 0
    ELSE (IF Head(s).kind = "num" THEN Head(s).v ELSE 0) + SumSkipNa(Tail(s))

Abs(x) == IF x < 0 THEN 0 - x ELSE x

(***************************************************************************)
(* Bounds of the input tables.                                             *)
(***************************************************************************)
MaxRows == 3
MaxN    == 3

\* Key values in ascending (lexicographic) order, as groupby(sort=True) orders them.
\* The categories of the one wide table, which has a row for each of them.
WideCategories ==
    <<"k01", "k02", "k03", "k04", "k05", "k06", "k07", "k08", "k09", "k10", "k11",
      "k12", "k13", "k14", "k15", "k16", "k17", "k18", "k19", "k20", "k21", "k22",
      "k23", "k24", "k25", "k26", "k27", "k28", "k29", "k30", "k31">>

SortedKeys == <<"a", "b">> \o WideCategories \o <<"p", "q", "r">>
Rank(k) == CHOOSE i \in 1..Len(SortedKeys) : SortedKeys[i] = k

\* The catalogue: each product is sold in one category.
Catalog == {<<"a", "p">>, <<"b", "q">>, <<"a", "r">>}
\* <<Sales in cents, Quantity>> of one transaction; a line of Quantity 0 is a
\* return or a cancelled order, booked with or without an amount.
SaleLines == {<<0, 0>>, <<250, 0>>, <<250, 2>>}

RowSet ==
    {[Date |-> <<2024, 1, 15>>, Category |-> c[1], Product |-> c[2],
      Sales |-> l[1], Quantity |-> l[2]] :
        c \in Catalog, l \in SaleLines}

\* One order in each of many categories, all of the same amount.
WideTable ==
    [i \in 1..Len(WideCategories) |->
        [Date |-> <<2024, 1, 15>>, Category |-> WideCategories[i], Product |-> "p",
         Sales |-> 100, Quantity |-> 1]]

Tables == UNION {[1..k -> RowSet] : k \in 1..MaxRows} \cup {WideTable}

(***************************************************************************)
(* DataFrame.groupby(key).agg(...): one group per distinct key, groups in  *)
(* ascending key order (sort=True is the default).                         *)
(***************************************************************************)
Column(t, col) == [i \in 1..Len(t) |-> t[i][col]]

KeysOf(t, col) == {t[i][col] : i \in 1..Len(t)}

RECURSIVE GroupSum(_, _, _, _)
GroupSum(t, col, k, metric) ==
    IF t = <<>> THEN 0
    ELSE (IF Head(t)[col] = k THEN Head(t)[metric] ELSE 0)
         + GroupSum(Tail(t), col, k, metric)

GroupCount(t, col, k) == Cardinality({i \in 1..Len(t) : t[i][col] = k})

\* The keys of the groups, ascending.
RECURSIVE GroupKeysFrom(_, _)
GroupKeysFrom(keys, i) ==
    IF i > Len(SortedKeys) THEN <<>>
    ELSE (IF SortedKeys[i] \in keys THEN <<SortedKeys[i]>> ELSE <<>>)
         \o GroupKeysFrom(keys, i + 1)

GroupKeys(t, col) == GroupKeysFrom(KeysOf(t, col), 1)

(***************************************************************************)
(* DataFrame.sort_values(metric, ascending=False).  pandas reverses the    *)
(* rows, argsorts ascending and reverses the result; numpy's default       *)
(* quicksort is an insertion sort below 17 elements, so within MaxRows     *)
(* rows with equal metric keep their incoming order.  (The wide table has  *)
(* more groups; they all carry the same numbers, and only the order of     *)
(* their keys, which no property of it reads, is left open by numpy.)      *)
(***************************************************************************)
RECURSIVE InsertDesc(_, _, _)
InsertDesc(sorted, row, metric) ==
    IF sorted = <<>> THEN <<row>>
    ELSE IF Head(sorted)[metric] >= row[metric]
         THEN <<Head(sorted)>> \o InsertDesc(Tail(sorted), row, metric)
         ELSE <<row>> \o sorted

RECURSIVE SortFrom(_, _, _)
SortFrom(acc, rest, metric) ==
    IF rest = <<>> THEN acc
    ELSE SortFrom(InsertDesc(acc, Head(rest), metric), Tail(rest), metric)

sort_values_desc(rows, metric) == SortFrom(<<>>, rows, metric)

\* DataFrame.head(n), n >= 0
head_one_more(rows, n) == SubSeq(rows, 1, IF n + 1 < Len(rows) THEN n + 1 ELSE Len(rows))

head(rows, n) == SubSeq(rows, 1, IF n < Len(rows) THEN n ELSE Len(rows))

(***************************************************************************)
(* AmazonSalesAnalysis.sales_by_category                                   *)
(***************************************************************************)
\* (part / whole * 100).round(2), in hundredths of a percent
PctOneDecimal(part, whole) ==
    IF whole = 0 THEN (IF part = 0 THEN NaN ELSE Inf)
    ELSE Num(10 * RoundHalfEven(part * 1000, whole))

Pct(part, whole) == Divide(part, whole, 10000)

CategoryAgg(t) ==
    LET keys == GroupKeys(t, "Category")
    IN  [i \in 1..Len(keys) |->
            [key            |-> keys[i],
             TotalSales     |-> GroupSum(t, "Category", keys[i], "Sales"),
             AverageSales   |-> RoundHalfEven(GroupSum(t, "Category", keys[i], "Sales"),
                                              GroupCount(t, "Category", keys[i])),
             NumberOfOrders |-> GroupCount(t, "Category", keys[i]),
             UnitsSold      |-> GroupSum(t, "Category", keys[i], "Quantity")]]

sales_by_category(t) ==
    LET sorted == sort_values_desc(CategoryAgg(t), "TotalSales")
        sales  == SumSeq(Column(sorted, "TotalSales"))
        orders == SumSeq(Column(sorted, "NumberOfOrders"))
    IN  [i \in 1..Len(sorted) |->
            [key            |-> sorted[i].key,
             TotalSales     |-> sorted[i].TotalSales,
             AverageSales   |-> sorted[i].AverageSales,
             NumberOfOrders |-> sorted[i].NumberOfOrders,
             UnitsSold      |-> sorted[i].UnitsSold,
             SalesPct       |-> Pct(sorted[i].TotalSales, sales),
             OrdersPct      |-> Pct(sorted[i].NumberOfOrders, orders)]]

(***************************************************************************)
(* AmazonSalesAnalysis.top_products                                        *)
(***************************************************************************)
ProductAgg(t) ==
    LET keys == GroupKeys(t, "Product")
    IN  [i \in 1..Len(keys) |->
            [key          |-> keys[i],
             Sales        |-> GroupSum(t, "Product", keys[i], "Sales"),
             Quantity     |-> GroupSum(t, "Product", keys[i], "Quantity"),
             AveragePrice |-> Divide(GroupSum(t, "Product", keys[i], "Sales"),
                                     GroupSum(t, "Product", keys[i], "Quantity"), 1)]]

top_products(t, n) == head(sort_values_desc(ProductAgg(t), "Sales"), n)

(***************************************************************************)
(* Dates, and resample('M') as generate_excel_report and monthly_trends    *)
(* use it.  A date is <<year, month, day>>.                                *)
(***************************************************************************)
IsLeap(y) == (y % 4 = 0 /\ y % 100 # 0) \/ y % 400 = 0

DaysInMonth(y, m) ==
    IF m = 2 THEN (IF IsLeap(y) THEN 29 ELSE 28)
    ELSE IF m \in {4, 6, 9, 11} THEN 30 ELSE 31

\* Months counted from year 0
MonthIndex(d) == d[1] * 12 + d[2] - 1

\* The label of a monthly bin
MonthStart(mi) == <<mi \div 12, (mi % 12) + 1, 1>>

MonthEnd(mi) == <<mi \div 12, (mi % 12) + 1, DaysInMonth(mi \div 12, (mi % 12) + 1)>>

HasDate(t) == "Date" \in DOMAIN t[1]

\* sum of a column over the rows of one month; 0 for a month without rows
RECURSIVE MonthSum(_, _, _)
MonthSum(t, mi, metric) ==
    IF t = <<>> THEN 0
    ELSE (IF MonthIndex(Head(t).Date) = mi THEN Head(t)[metric] ELSE 0)
         + MonthSum(Tail(t), mi, metric)

\* df.set_index('Date').resample('M').agg({'Sales': 'sum', 'Quantity': 'sum'})
\* .reset_index(): one bin for every month from the first date to the last.
monthly_data(t) ==
    LET months == {MonthIndex(t[i].Date) : i \in 1..Len(t)}
        lo == CHOOSE x \in months : \A y \in months : x <= y
        hi == CHOOSE x \in months : \A y \in months : x >= y
    IN  [i \in 1..(hi - lo + 1) |->
            [Date     |-> MonthEnd(lo + i - 1),
             Sales    |-> MonthSum(t, lo + i - 1, "Sales"),
             Quantity |-> MonthSum(t, lo + i - 1, "Quantity")]]

(***************************************************************************)
(* AmazonSalesAnalysis.basic_statistics and generate_excel_report          *)
(***************************************************************************)
\* Amounts in cents; Average Items Per Sale in tenths (f"{x:.1f}").
sales_basic_statistics(t) ==
    LET sales == {t[i].Sales : i \in 1..Len(t)}
    IN  [TotalSalesRevenue   |-> SumSeq(Column(t, "Sales")),
         AverageSalesAmount  |-> RoundHalfEven(SumSeq(Column(t, "Sales")), Len(t)),
         HighestSingleSale   |-> CHOOSE x \in sales : \A y \in sales : x >= y,
         LowestSingleSale    |-> CHOOSE x \in sales : \A y \in sales : x <= y,
         TotalProductsSold   |-> SumSeq(Column(t, "Quantity")),
         TotalUniqueProducts |-> Cardinality(KeysOf(t, "Product")),
         AverageItemsPerSale |-> RoundHalfEven(10 * SumSeq(Column(t, "Quantity")), Len(t))]

\* top_products(n=10) as the report asks for it
ReportTopN == 10

\* The workbook generate_excel_report writes, sheet by sheet, and what it returns.
excel_report(t) ==
    [ok     |-> TRUE,
     sheets |-> <<[name |-> "Basic Statistics",  data |-> sales_basic_statistics(t)],
                  [name |-> "Category Analysis", data |-> sales_by_category(t)],
                  [name |-> "Top Products",      data |-> top_products(t, ReportTopN)],
                  [name |-> "Monthly Trends",    data |-> monthly_data(t)]>>]

(***************************************************************************)
(* The analyzer as a state machine: load_data, then any of its methods.    *)
(***************************************************************************)
Requests == {"r1", "r2"}

NoRequest ==
    [pc |-> "new", filename |-> "", kind |-> "", filepath |-> <<>>, output_path |-> <<>>,
     analyzer |-> "", response |-> <<>>, flash |-> ""]

WebIdle ==
    /\ fs = <<>>
    /\ now = 0
    /\ req = [r \in Requests |-> NoRequest]

\* No method of the analyzer has been called
NoCall == [method |-> "", arg |-> "", value |-> <<>>, before |-> 0]

FlexIdle ==
    /\ uploaded_file = <<>>
    /\ widgets = <<>>
    /\ col_map = <<>>
    /\ pc = "idle"
    /\ tab1 = <<>>
    /\ tab2 = <<>>
    /\ analyzer = <<>>
    /\ figures = 0
    /\ last_call = NoCall

SalesInit ==
    /\ FlexIdle
    /\ WebIdle
    /\ df = None
    /\ call = "__init__"
    /\ arg = 0
    /\ ret = None
    /\ report = None
    /\ png = FALSE

\* load_data: read_excel, then to_datetime on the Date column; without that
\* column the KeyError is caught and False is returned, the table staying in df.
LoadFrom(tables) ==
    /\ df = None
    /\ \E t \in tables :
        /\ df' = t
        /\ ret' = HasDate(t)
    /\ call' = "load_data"
    /\ arg' = 0
    /\ UNCHANGED <<report, png, flexVars, webVars>>

load_data == LoadFrom(Tables)

call_sales_by_category ==
    /\ df # None
    /\ call' = "sales_by_category"
    /\ arg' = 0
    /\ ret' = sales_by_category(df)
    /\ UNCHANGED <<df, report, png, flexVars, webVars>>

call_top_products ==
    /\ df # None
    /\ \E n \in 0..MaxN :
        /\ arg' = n
        /\ ret' = top_products(df, n)
    /\ call' = "top_products"
    /\ UNCHANGED <<df, report, png, flexVars, webVars>>

SalesNext == load_data \/ call_sales_by_category \/ call_top_products

(***************************************************************************)
(* The report: tables whose rows differ in their dates, and tables without *)
(* a Date column.  Every caller (main, the upload handlers) goes on to the *)
(* methods only when load_data returned True.                              *)
(***************************************************************************)
\* The last day of a year, two days of a leap February, the end of April
Dates == {<<2023, 12, 31>>, <<2024, 2, 1>>, <<2024, 2, 29>>, <<2024, 4, 30>>}

DatedRows ==
    {[Date |-> d, Category |-> "a", Product |-> "p", Sales |-> l[1], Quantity |-> l[2]] :
        d \in Dates, l \in {<<100, 1>>, <<250, 2>>}}

UndatedRows ==
    {[Category |-> c[1], Product |-> c[2], Sales |-> 250, Quantity |-> 2] : c \in Catalog}

DatedTables == UNION {[1..k -> DatedRows] : k \in 1..MaxRows}

UndatedTables == UNION {[1..k -> UndatedRows] : k \in 1..MaxRows}

load_report_data == LoadFrom(DatedTables \cup UndatedTables)

Loaded == df # None /\ HasDate(df)

\* monthly_trends: the resampled table is plotted and the figure saved; the
\* method has no return statement.
call_monthly_trends ==
    /\ Loaded
    /\ call' = "monthly_trends"
    /\ arg' = 0
    /\ ret' = None
    /\ png' = TRUE
    /\ UNCHANGED <<df, report, flexVars, webVars>>

call_generate_excel_report ==
    /\ Loaded
    /\ call' = "generate_excel_report"
    /\ arg' = 0
    /\ ret' = excel_report(df).ok
    /\ report' = excel_report(df).sheets
    /\ UNCHANGED <<df, png, flexVars, webVars>>

ReportNext == load_report_data \/ call_monthly_trends \/ call_generate_excel_report

(***************************************************************************)
(* Properties of the aggregation results.                                  *)
(***************************************************************************)
\* The row at which key k of column col is first encountered in table t.
FirstIndex(t, col, k) == CHOOSE i \in 1..Len(t) :
    /\ t[i][col] = k
    /\ \A j \in 1..(i - 1) : t[j][col] # k

\* Series.sum() of a percentage column, in hundredths of a percent.
PctSum(rows, col) == SumSkipNa(Column(rows, col))

C9_TopNBoundedSorted ==
    call = "top_products" =>
        /\ Len(ret) <= arg
        /\ \A i, j \in 1..Len(ret) : i < j => ret[i].Sales >= ret[j].Sales

\* Three products, the best seller encountered last, and the two best asked for.
C9_Witness ==
    /\ call = "top_products"
    /\ arg = 2
    /\ Len(ret) = 2
    /\ Cardinality(KeysOf(df, "Product")) = 3
    /\ ret[1].Sales > ret[2].Sales
    /\ ret[1].key = df[Len(df)].Product

\* C10: groups of equal ranking metric appear in the order in which their key
\* is first encountered in the input rows.
C10_TiesFirstEncountered ==
    /\ call = "sales_by_category" =>
          \A i, j \in 1..Len(ret) :
              (i < j /\ ret[i].TotalSales = ret[j].TotalSales) =>
                  FirstIndex(df, "Category", ret[i].key) < FirstIndex(df, "Category", ret[j].key)
    /\ call = "top_products" =>
          \A i, j \in 1..Len(ret) :
              (i < j /\ ret[i].Sales = ret[j].Sales) =>
                  FirstIndex(df, "Product", ret[i].key) < FirstIndex(df, "Product", ret[j].key)

\* C11: a product whose summed Quantity is zero has a missing Average Price
\* in top_products, not an infinite one.
C11_ZeroQuantityIsMissing ==
    call = "top_products" =>
        \A i \in 1..Len(ret) : ret[i].Quantity = 0 => ret[i].AveragePrice = NaN

\* The Monthly Trends sheet of the report written last
Trend == report[4].data

ActiveMonths == {MonthIndex(df[i].Date) : i \in 1..Len(df)}

\* C12: the monthly trend table has exactly one row for each month with a
\* transaction and no row for a month without one.
C12_OneRowPerActiveMonth ==
    report # None =>
        /\ \A i \in 1..Len(Trend) : MonthIndex(Trend[i].Date) \in ActiveMonths
        /\ \A m \in ActiveMonths :
              Cardinality({i \in 1..Len(Trend) : MonthIndex(Trend[i].Date) = m}) = 1

\* Dates in chronological order
DateBefore(a, b) ==
    \/ a[1] < b[1]
    \/ a[1] = b[1] /\ a[2] < b[2]
    \/ a[1] = b[1] /\ a[2] = b[2] /\ a[3] < b[3]

SameMonth(a, b) == a[1] = b[1] /\ a[2] = b[2]

\* The last days of the months the input dates span, from the calendar
LastDays ==
    {<<2023, 12, 31>>, <<2024, 1, 31>>, <<2024, 2, 29>>, <<2024, 3, 31>>, <<2024, 4, 30>>}

\* C13: the monthly trend rows are strictly increasing in their bucket, no two
\* in one month; a bucket is the last day of its month and its row sums the
\* transactions of that month; dates of a single month give a single row.
C13_TrendChronological ==
    report # None =>
        /\ \A i, j \in 1..Len(Trend) :
              i < j => (/\ DateBefore(Trend[i].Date, Trend[j].Date)
                        /\ ~SameMonth(Trend[i].Date, Trend[j].Date))
        /\ \A i \in 1..Len(Trend) :
              /\ Trend[i].Date \in LastDays
              /\ Trend[i].Sales
                     = SumSeq([k \in 1..Len(df) |->
                                  IF SameMonth(df[k].Date, Trend[i].Date)
                                  THEN df[k].Sales ELSE 0])
        /\ \A k \in 1..Len(df) :
              \E i \in 1..Len(Trend) :
                  /\ SameMonth(df[k].Date, Trend[i].Date)
                  /\ ~DateBefore(Trend[i].Date, df[k].Date)
        /\ Cardinality(ActiveMonths) = 1 => Len(Trend) = 1

\* Sales in December, on the 29th of February and in April: five buckets.
C13_Witness ==
    /\ report # None
    /\ Len(Trend) = 5
    /\ Trend[1].Date = <<2023, 12, 31>>
    /\ Trend[3].Date = <<2024, 2, 29>>
    /\ Trend[3].Sales = 250
    /\ \E k \in 1..Len(df) : df[k].Date = <<2024, 2, 29>>

\* C14: a table without a Date column loads successfully, and its report has
\* the other sections and no Monthly Trends sheet.
C14_NoDateStillReports ==
    (df # None /\ ~HasDate(df)) =>
        /\ call = "load_data" => ret = TRUE
        /\ report # None => \A i \in 1..Len(report) : report[i].name # "Monthly Trends"

(***************************************************************************)
(* launch.py: spreadsheet cells, sheets and DataFrames.                    *)
(* A cell is a string, a number or empty (NaN).  A frame has its columns   *)
(* in order, a dtype for each column and its rows, each row a function     *)
(* from column name to cell.                                               *)
(***************************************************************************)
Str(x)    == [t |-> "str", s |-> x, n |-> 0]
Number(x) == [t |-> "num", s |-> "", n |-> x]
Missing   == [t |-> "nan", s |-> "", n |-> 0]

\* str.lower() on the strings of the model
Lower(x) ==
    CASE x = "Pen" -> "pen"
      [] x = "Ink" -> "ink"
      [] x = "ABC" -> "abc"
      [] x = "Cash" -> "cash"
      [] x = "Others" -> "others"
      [] OTHER -> x

\* The strings of the model that parse as a number, with their values.
IsNumeric(x) == x \in {"10", "20"}
ParseNumber(x) == IF x = "10" THEN 10 ELSE 20

\* pd.to_numeric(errors='coerce') on one cell
to_numeric(cell) ==
    IF cell.t = "num" THEN cell
    ELSE IF cell.t = "str" /\ IsNumeric(cell.s) THEN Number(ParseNumber(cell.s))
    ELSE Missing

\* Series.str.lower() on one cell of an object column: a cell that is not a
\* string becomes NaN.
str_lower(cell) == IF cell.t = "str" THEN Str(Lower(cell.s)) ELSE Missing

SeqToSet(q) == {q[i] : i \in 1..Len(q)}

ColCells(d, c) == [i \in 1..Len(d.rows) |-> d.rows[i][c]]

\* The dtype read_excel infers: numbers (and blanks) or object.
InferDType(cells) ==
    IF \A i \in 1..Len(cells) : cells[i].t \in {"num", "nan"} THEN "number" ELSE "object"

\* Series.nunique(): NaN is not counted.
NUnique(cells) == Cardinality({cells[i] : i \in 1..Len(cells)} \ {Missing})

\* load_excel_sheet: an object column with nunique / len < 0.5 becomes a category.
OptimizedDType(cells) ==
    IF InferDType(cells) = "object" /\ 2 * NUnique(cells) < Len(cells)
    THEN "category"
    ELSE InferDType(cells)

load_excel_sheet(sheet) ==
    [cols  |-> sheet.cols,
     dtype |-> [c \in SeqToSet(sheet.cols) |-> OptimizedDType(ColCells(sheet, c))],
     rows  |-> sheet.rows]

EmptyFrame == [cols |-> <<>>, dtype |-> <<>>, rows |-> <<>>]

RECURSIVE SeqMinus(_, _)
SeqMinus(q, set) ==
    IF q = <<>> THEN <<>>
    ELSE (IF Head(q) \in set THEN <<>> ELSE <<Head(q)>>) \o SeqMinus(Tail(q), set)

\* pd.concat([a, b], ignore_index=True): the union of the columns, a's first;
\* a cell of a column the frame lacks is NaN.  An empty frame is dropped.  A column
\* stays a category only if both parts are categories over the same values.
concat(a, b) ==
    IF a.rows = <<>> THEN b
    ELSE
        LET cols == a.cols \o SeqMinus(b.cols, SeqToSet(a.cols))
            ina(c) == c \in SeqToSet(a.cols)
            inb(c) == c \in SeqToSet(b.cols)
            ext(d, r) == [c \in SeqToSet(cols) |->
                             IF c \in SeqToSet(d.cols) THEN r[c] ELSE Missing]
            dt(c) ==
                IF ~inb(c) THEN a.dtype[c]
                ELSE IF ~ina(c) THEN b.dtype[c]
                ELSE IF a.dtype[c] = "number" /\ b.dtype[c] = "number" THEN "number"
                ELSE IF /\ a.dtype[c] = "category"
                        /\ b.dtype[c] = "category"
                        /\ SeqToSet(ColCells(a, c)) \ {Missing}
                               = SeqToSet(ColCells(b, c)) \ {Missing}
                     THEN "category"
                ELSE "object"
        IN  [cols  |-> cols,
             dtype |-> [c \in SeqToSet(cols) |-> dt(c)],
             rows  |-> [i \in 1..Len(a.rows) |-> ext(a, a.rows[i])]
                       \o [i \in 1..Len(b.rows) |-> ext(b, b.rows[i])]]

\* main, lines 366-378: every sheet is loaded and appended to combined_df.
RECURSIVE ConcatAll(_, _)
ConcatAll(acc, sheets) ==
    IF sheets = <<>> THEN acc
    ELSE ConcatAll(concat(acc, load_excel_sheet(Head(sheets))), Tail(sheets))

\* DataFrame.rename(columns=m): a copy with the mapped columns renamed.
Renamed(m, c) == IF c \in DOMAIN m THEN m[c] ELSE c

rename(d, m) ==
    LET cols == [i \in 1..Len(d.cols) |-> Renamed(m, d.cols[i])]
        src(c) == CHOOSE o \in SeqToSet(d.cols) : Renamed(m, o) = c
    IN  [cols  |-> cols,
         dtype |-> [c \in SeqToSet(cols) |-> d.dtype[src(c)]],
         rows  |-> [i \in 1..Len(d.rows) |->
                       [c \in SeqToSet(cols) |-> d.rows[i][src(c)]]]]

HasColumn(d, c) == c \in SeqToSet(d.cols)

\* df[c] = value, for a new column c
DefaultOne == 1

AddColumn(d, c, cell) ==
    [cols  |-> Append(d.cols, c),
     dtype |-> [x \in SeqToSet(d.cols) \cup {c} |-> IF x = c THEN "number" ELSE d.dtype[x]],
     rows  |-> [i \in 1..Len(d.rows) |->
                   [x \in SeqToSet(d.cols) \cup {c} |-> IF x = c THEN cell ELSE d.rows[i][x]]]]

\* lines 451-453 and 489-490: without a Quantity column, Quantity is 1 in every row
with_default_quantity_zero(d) ==
    IF HasColumn(d, "Quantity") THEN d ELSE AddColumn(d, "Quantity", Number(0))

with_default_quantity(d) ==
    IF HasColumn(d, "Quantity") THEN d ELSE AddColumn(d, "Quantity", Number(DefaultOne))

(***************************************************************************)
(* FlexibleDataAnalysis                                                    *)
(***************************************************************************)
\* Series * Series, elementwise: NaN if either operand is NaN
Times(a, b) == IF a.t = "num" /\ b.t = "num" THEN Number(a.n * b.n) ELSE Missing

\* __init__, lines 59-62: every object column is lower-cased (a category is not)
LowerCased(d) ==
    [d EXCEPT !.rows =
        [i \in 1..Len(d.rows) |->
            [c \in SeqToSet(d.cols) |->
                IF d.dtype[c] = "object" THEN str_lower(d.rows[i][c]) ELSE d.rows[i][c]]]]

\* __init__, lines 64-81, on a frame that has Price: Price and Quantity are
\* coerced to numbers, Quantity defaults to 1 and Total_Price is their product.
Normalized(d) ==
    LET low == LowerCased(d)
        qty(r) == IF HasColumn(d, "Quantity") THEN to_numeric(r["Quantity"])
                  ELSE Number(DefaultOne)
        out == SeqToSet(d.cols) \cup {"Quantity", "Total_Price"}
        cell(r, c) ==
            CASE c = "Price" -> to_numeric(r["Price"])
              [] c = "Quantity" -> qty(r)
              [] c = "Total_Price" -> Times(to_numeric(r["Price"]), qty(r))
              [] OTHER -> r[c]
    IN  [cols  |-> d.cols \o SeqMinus(<<"Quantity", "Total_Price">>, SeqToSet(d.cols)),
         dtype |-> [c \in out |->
                       IF c \in {"Price", "Quantity", "Total_Price"} THEN "number"
                       ELSE low.dtype[c]],
         rows  |-> [i \in 1..Len(low.rows) |-> [c \in out |-> cell(low.rows[i], c)]]]

\* FlexibleDataAnalysis(df): without a Price column the constructor reports the
\* error and returns, leaving the frame as it was given.
FlexibleDataAnalysis(d) ==
    IF ~HasColumn(d, "Price")
    THEN [df |-> d, has_price |-> FALSE, error |-> "'Price' column is missing"]
    ELSE [df |-> Normalized(d), has_price |-> TRUE, error |-> ""]

\* The numbers of a column, NaN skipped
Valid(cells) == SelectSeq(cells, LAMBDA x : x.t = "num")

CellValues(cells) == [i \in 1..Len(cells) |-> cells[i].n]

MaxSeq(q) == CHOOSE x \in SeqToSet(q) : \A y \in SeqToSet(q) : x >= y

MinSeq(q) == CHOOSE x \in SeqToSet(q) : \A y \in SeqToSet(q) : x <= y

\* Series.mean() / max() / min(): over the valid cells, NaN if there is none.
\* Amounts are in hundredths, as f"{x:,.2f}" prints them; NaN prints as "N/A".
Mean(cells) ==
    LET v == CellValues(Valid(cells))
    IN  IF v = <<>> THEN NaN ELSE Num(RoundHalfEven(100 * SumSeq(v), Len(v)))

Highest(cells) ==
    LET v == CellValues(Valid(cells))
    IN  IF v = <<>> THEN NaN ELSE Num(100 * MaxSeq(v))

Lowest(cells) ==
    LET v == CellValues(Valid(cells))
    IN  IF v = <<>> THEN NaN ELSE Num(100 * MinSeq(v))

\* Series.sum(): 0 when every cell is NaN
Total(cells) == SumSeq(CellValues(Valid(cells)))

\* total_revenue / len(self.df)
avg_transaction_value(d) ==
    Num(RoundHalfEven(100 * Total(ColCells(d, "Total_Price")), Len(d.rows)))

NoStats    == [kind |-> "none"]
ErrorStats == [kind |-> "error"]

\* basic_statistics: a missing Total_Price, Price, Quantity or Item column raises
\* KeyError, which is caught and answered with the series {"Error": ...}.
basic_statistics(a) ==
    IF ~(\A c \in {"Total_Price", "Price", "Quantity", "Item"} : HasColumn(a.df, c))
    THEN ErrorStats
    ELSE [kind                    |-> "stats",
          TotalRevenue            |-> Num(100 * Total(ColCells(a.df, "Total_Price"))),
          AverageUnitPrice        |-> Mean(ColCells(a.df, "Price")),
          HighestUnitPrice        |-> Highest(ColCells(a.df, "Price")),
          LowestUnitPrice         |-> Lowest(ColCells(a.df, "Price")),
          TotalQuantitySold       |-> Total(ColCells(a.df, "Quantity")),
          AverageTransactionValue |-> avg_transaction_value(a.df),
          TotalUniqueItems        |-> Cardinality(SeqToSet(ColCells(a.df, "Item"))),
          TotalTransactions       |-> Len(a.df.rows)]
         @@ (IF HasColumn(a.df, "Type")
             THEN "NumberOfCategories" :> Cardinality(SeqToSet(ColCells(a.df, "Type")))
             ELSE <<>>)

(***************************************************************************)
(* FlexibleDataAnalysis.create_pie_chart and create_all_pie_charts         *)
(***************************************************************************)
\* The rows at which a label of the column appears for the first time
FirstRows(cells) ==
    {i \in 1..Len(cells) :
        cells[i].t = "str" /\ \A j \in 1..(i - 1) : cells[j] # cells[i]}

\* The labels of a column in order of first appearance, NaN left out
RECURSIVE FirstSeen(_, _)
FirstSeen(cells, rows) ==
    IF rows = {} THEN <<>>
    ELSE LET i == CHOOSE x \in rows : \A y \in rows : x <= y
         IN  <<cells[i].s>> \o FirstSeen(cells, rows \ {i})

CountOf(cells, label) == Cardinality({i \in 1..Len(cells) : cells[i] = Str(label)})

\* Series.str.lower().value_counts(): the count of each label, NaN dropped,
\* largest first
value_counts(cells) ==
    LET low == [i \in 1..Len(cells) |-> str_lower(cells[i])]
        labels == FirstSeen(low, FirstRows(low))
    IN  sort_values_desc([i \in 1..Len(labels) |->
                             [label |-> labels[i], count |-> CountOf(low, labels[i])]],
                         "count")

\* len(data) > 15
PieMaxCategories == 15

\* data[~other_mask]
KeptAll(data, total) == data

Kept(data, total) == SelectSeq(data, LAMBDA x : ~(100 * x.count < total))

\* data['others'] = other_sum: the entry of that label is replaced where it
\* stands, or a new one is put at the end
SetOthers(data, other_sum) ==
    IF \E i \in 1..Len(data) : data[i].label = "others"
    THEN [i \in 1..Len(data) |->
             IF data[i].label = "others" THEN [label |-> "others", count |-> other_sum]
             ELSE data[i]]
    ELSE Append(data, [label |-> "others", count |-> other_sum])

\* Lines 90-102: the slices of the pie.  threshold = data.sum() * 0.01 and
\* data < threshold, on counts, is 100 * count < sum.
pie_data(cells) ==
    LET data  == value_counts(cells)
        total == SumSeq(Column(data, "count"))
        kept  == Kept(data, total)
    IN  IF Len(data) > PieMaxCategories /\ Len(kept) < Len(data)
        THEN sort_values_desc(SetOthers(kept, total - SumSeq(Column(kept, "count"))), "count")
        ELSE sort_values_desc(data, "count")

\* The .str accessor exists for strings only: on a column of numbers it
\* raises AttributeError.
StrAccessorRaises(d, column) == d.dtype[column] = "number"

\* create_pie_chart(column, title): None without the column; otherwise a figure
\* is opened, and it is returned unless .str raises.
create_pie_chart(d, column) ==
    IF ~HasColumn(d, column) THEN [kind |-> "none", opened |-> 0]
    ELSE IF StrAccessorRaises(d, column) THEN [kind |-> "raise", opened |-> 1]
    ELSE [kind |-> "figure", opened |-> 1, column |-> column,
          slices |-> pie_data(ColCells(d, column))]

\* The optional columns in the order create_all_pie_charts asks for them, and
\* the chart titles
OptionalColumns ==
    <<"Source", "Status", "Transaction_Status", "Payment_Mode", "Product_Name">>

ChartTitles ==
    <<"Source of Scan", "Old/New", "Transaction Status", "Payment Mode", "Product Name">>

\* create_all_pie_charts from the i-th optional column on: the charts made, the
\* figures opened, and whether a chart raised (which ends the loop).
RECURSIVE ChartsFrom(_, _)
ChartsFrom(d, i) ==
    IF i > Len(OptionalColumns) THEN [charts |-> <<>>, opened |-> 0, raised |-> FALSE]
    ELSE IF ~HasColumn(d, OptionalColumns[i]) THEN ChartsFrom(d, i + 1)
    ELSE LET fig == create_pie_chart(d, OptionalColumns[i])
         IN  IF fig.kind = "raise"
             THEN [charts |-> <<>>, opened |-> 1, raised |-> TRUE]
             ELSE LET rest == ChartsFrom(d, i + 1)
                  IN  [charts |-> <<[title |-> ChartTitles[i], fig |-> fig]>> \o rest.charts,
                       opened |-> 1 + rest.opened,
                       raised |-> rest.raised]

create_all_pie_charts(d) == ChartsFrom(d, 1)

NoPptx == [kind |-> "none"]

\* generate_presentation: a title slide, the statistics slide (whatever
\* basic_statistics returned, the error series included) and a slide for
\* each chart; None when a chart raised.
generate_presentation(a) ==
    LET made == create_all_pie_charts(a.df)
    IN  IF made.raised THEN NoPptx
        ELSE [kind   |-> "pptx",
              slides |-> <<"title", "Basic Statistics">>
                         \o [i \in 1..Len(made.charts) |-> made.charts[i].title],
              stats  |-> basic_statistics(a)]

\* The figures generate_presentation leaves open.  Every chart made opened a
\* figure; the slide loop (lines 296-332) opens one more per chart with
\* plt.figure() and closes the chart's own with plt.close(fig).  When a chart
\* raised, the loop is not reached and nothing is closed.
figures_left_open(a) ==
    LET made == create_all_pie_charts(a.df)
    IN  IF made.raised THEN made.opened
        ELSE made.opened + Len(made.charts) - Len(made.charts)

(***************************************************************************)
(* launch.main: one run of the Streamlit script is the upload (or a        *)
(* changed widget), then process_tab1, then process_tab2.  col_map is a    *)
(* local of main: every run starts with it empty.                          *)
(***************************************************************************)
MaxSheetRows == 3

\* The Item cell of the i-th row of a sheet
ItemColumn == <<"Pen", "pen", "Ink", "ink", "ABC">>
ItemCell(i) == Str(ItemColumn[((i - 1) % Len(ItemColumn)) + 1])

PriceCells == {Str("10"), Str("20"), Str("abc"), Number(10), Number(20)}
QtyCells   == {Number(1), Number(2), Missing}

\* A sheet with columns name, cost and, in order of appearance, qty.
Sheet(cols, cost, qty) ==
    [cols |-> cols,
     rows |-> [i \in 1..Len(cost) |->
                  [c \in SeqToSet(cols) |->
                      CASE c = "name" -> ItemCell(i)
                        [] c = "cost" -> cost[i]
                        [] c = "qty"  -> qty[i]]]]

\* Workbooks of one or two short sheets, which need not have the same columns
MapSheets ==
    UNION {
        {Sheet(cols, cost, [i \in 1..k |-> Number(1)]) :
            cols \in {<<"name", "cost">>, <<"name", "cost", "qty">>},
            cost \in [1..k -> {Str("abc"), Number(10)}]}
        \cup {Sheet(<<"name", "qty">>, [i \in 1..k |-> Missing], [i \in 1..k |-> Number(1)])}
        : k \in 1..2}

MapWorkbooks == {<<a>> : a \in MapSheets} \cup {<<a, b>> : a \in MapSheets, b \in MapSheets}

xls_sheet_names == 1..Len(uploaded_file)

all_dfs == [i \in xls_sheet_names |-> load_excel_sheet(uploaded_file[i])]

combined_df == ConcatAll(EmptyFrame, uploaded_file)

\* What each select box shows when the script first runs
DefaultWidgets ==
    [price_col |-> "", item_col |-> "", quantity_col |-> "None", selected_sheet |-> 1]

NoTab ==
    [errors   |-> <<>>,
     analyzer |-> [df |-> EmptyFrame, has_price |-> FALSE, error |-> ""],
     table    |-> NoStats,
     pptx     |-> NoPptx]

Rejected(msg) == [NoTab EXCEPT !.errors = <<msg>>]

\* Lines 449-473 and 487-510: the analyzer is built on the renamed frame, then
\* the statistics table is shown and the presentation is offered for download.
Analysis(d) ==
    LET a == FlexibleDataAnalysis(with_default_quantity(d))
        stats == basic_statistics(a)
    IN  [errors   |-> (IF a.error = "" THEN <<>> ELSE <<a.error>>)
                      \o (IF stats.kind = "error"
                          THEN <<"Error calculating statistics">> ELSE <<>>),
         analyzer |-> a,
         table    |-> stats,
         pptx     |-> generate_presentation(a)]

\* Lines 420-437: the dict is built key by key, a later entry for the same
\* source column replacing the earlier one.
NewColMap(w) ==
    LET base == (w.price_col :> "Price") @@ (w.item_col :> "Item")
    IN  IF w.quantity_col # "None" THEN (w.quantity_col :> "Quantity") @@ base ELSE base

\* Lines 440-444: test_price.isna().all()
no_valid_price(d, c) == \A i \in 1..Len(d.rows) : to_numeric(d.rows[i][c]) = Missing

FlexInit ==
    /\ FlexIdle
    /\ WebIdle
    /\ df = None
    /\ call = "__init__"
    /\ arg = 0
    /\ ret = None
    /\ report = None
    /\ png = FALSE

StartRun(w) ==
    /\ widgets' = w
    /\ col_map' = <<>>
    /\ tab1' = NoTab
    /\ tab2' = NoTab
    /\ pc' = "tab1"

\* st.file_uploader: a workbook arrives and the script runs with the select
\* boxes at their first entries.
Upload(f) ==
    /\ pc = "idle"
    /\ uploaded_file' = f
    /\ StartRun(DefaultWidgets)
    /\ UNCHANGED <<chartVars, salesVars, webVars>>

upload_map == \E f \in MapWorkbooks : Upload(f)

\* A workbook of one sheet, over every Price and Quantity column of up to
\* MaxSheetRows cells.
upload_stat ==
    /\ pc = "idle"
    /\ \E k \in 1..MaxSheetRows :
           \E cost \in [1..k -> PriceCells] :
               \/ Upload(<<Sheet(<<"name", "cost">>, cost, cost)>>)
               \/ \E qty \in [1..k -> QtyCells] :
                      Upload(<<Sheet(<<"name", "cost", "qty">>, cost, qty)>>)

\* The user picks another entry in one select box, which runs the script again.
Select(w) ==
    /\ pc = "done"
    /\ w # widgets
    /\ StartRun(w)
    /\ UNCHANGED <<uploaded_file, chartVars, salesVars, webVars>>

select_any ==
    \E c \in SeqToSet(combined_df.cols) \cup {""} :
        \/ Select([widgets EXCEPT !.price_col = c])
        \/ Select([widgets EXCEPT !.item_col = c])
        \/ Select([widgets EXCEPT !.quantity_col = IF c = "" THEN "None" ELSE c])
        \/ \E i \in xls_sheet_names : Select([widgets EXCEPT !.selected_sheet = i])

\* The user maps each field to the column that holds it.
select_mapped ==
    \/ \E c \in {"", "cost"} : Select([widgets EXCEPT !.price_col = c])
    \/ \E c \in {"", "name"} : Select([widgets EXCEPT !.item_col = c])
    \/ \E c \in {"None"} \cup (SeqToSet(combined_df.cols) \cap {"qty"}) :
           Select([widgets EXCEPT !.quantity_col = c])

\* A click on a download button runs the script again with the same widgets.
rerun ==
    /\ pc = "done"
    /\ StartRun(widgets)
    /\ UNCHANGED <<uploaded_file, chartVars, salesVars, webVars>>

process_tab1 ==
    /\ pc = "tab1"
    /\ pc' = "tab2"
    /\ tab2' = tab2
    /\ IF widgets.price_col = ""
       THEN /\ tab1' = Rejected("Please select a Price column")
            /\ col_map' = col_map
       ELSE IF widgets.item_col = ""
       THEN /\ tab1' = Rejected("Please select an Item column")
            /\ col_map' = col_map
       ELSE /\ col_map' = NewColMap(widgets)
            /\ IF no_valid_price(combined_df, widgets.price_col)
               THEN tab1' = Rejected("The selected Price column does not contain any valid numeric values")
               ELSE tab1' = Analysis(rename(combined_df, NewColMap(widgets)))
    /\ UNCHANGED <<uploaded_file, widgets, chartVars, salesVars, webVars>>

process_tab2 ==
    /\ pc = "tab2"
    /\ pc' = "done"
    /\ IF col_map = <<>>
       THEN tab2' = Rejected("Please select columns in the Overall Analysis tab first")
       ELSE tab2' = Analysis(rename(all_dfs[widgets.selected_sheet], col_map))
    /\ UNCHANGED <<uploaded_file, widgets, col_map, tab1, chartVars, salesVars, webVars>>

FlexMapNext == upload_map \/ select_any \/ rerun \/ process_tab1 \/ process_tab2

FlexStatNext == upload_stat \/ select_mapped \/ rerun \/ process_tab1 \/ process_tab2

(***************************************************************************)
(* Properties of the dashboard.                                            *)
(***************************************************************************)
Tab1Ran == pc \in {"tab2", "done"}
Tab2Ran == pc = "done"

\* Nothing was aggregated or offered in a tab.
NothingEmitted(tab) == tab.table.kind = "none" /\ tab.pptx.kind = "none"

\* C2: when the column selected as Price holds no value that coerces to a
\* number, neither tab computes statistics or builds a presentation.
C2_UnusablePriceAborts ==
    (/\ pc \in {"tab1", "tab2", "done"}
     /\ widgets.price_col # ""
     /\ no_valid_price(combined_df, widgets.price_col)) =>
        /\ Tab1Ran => NothingEmitted(tab1)
        /\ Tab2Ran => NothingEmitted(tab2)

\* C3: no statistics table and no presentation is emitted for a table that
\* lacks Item or Price after the column mapping.
HasRequired(tab) == HasColumn(tab.analyzer.df, "Item") /\ HasColumn(tab.analyzer.df, "Price")

C3_RequiredFieldsOrNothing ==
    /\ Tab1Ran => (NothingEmitted(tab1) \/ HasRequired(tab1))
    /\ Tab2Ran => (NothingEmitted(tab2) \/ HasRequired(tab2))

\* C4: when one source column is selected for two canonical fields, the
\* mapping is rejected with an error and no analysis runs.
Selected(w) ==
    (IF w.price_col # "" THEN {<<"Price", w.price_col>>} ELSE {})
    \cup (IF w.item_col # "" THEN {<<"Item", w.item_col>>} ELSE {})
    \cup (IF w.quantity_col # "None" THEN {<<"Quantity", w.quantity_col>>} ELSE {})

DuplicateMapping(w) == \E x, y \in Selected(w) : x[1] # y[1] /\ x[2] = y[2]

C4_DuplicateMappingRejected ==
    (pc \in {"tab1", "tab2", "done"} /\ DuplicateMapping(widgets)) =>
        /\ Tab1Ran => (tab1.errors # <<>> /\ NothingEmitted(tab1))
        /\ Tab2Ran => (tab2.errors # <<>> /\ NothingEmitted(tab2))

\* C6: normalization keeps the number of every Price cell that coerces to one
\* (a number or a numeric string) and makes only the others missing, and the
\* Average Unit Price is the mean of those numbers.
C6_PriceCoercionKeepsNumbers ==
    (Tab1Ran /\ tab1.table.kind = "stats") =>
        /\ \A i \in 1..Len(combined_df.rows) :
              tab1.analyzer.df.rows[i]["Price"]
                  = to_numeric(combined_df.rows[i][widgets.price_col])
        /\ tab1.table.AverageUnitPrice
               = Mean([i \in 1..Len(combined_df.rows) |->
                          to_numeric(combined_df.rows[i][widgets.price_col])])

\* The same table with a source column "units" holding 1 in every row, mapped
\* to Quantity.
StatsWithQuantityOfOnes ==
    basic_statistics(FlexibleDataAnalysis(
        rename(AddColumn(combined_df, "units", Number(1)),
               ("units" :> "Quantity") @@ col_map)))

\* C7: the statistics of a table normalized without a Quantity column equal,
\* entry for entry, those of the same table with a Quantity column of 1s.
C7_AbsentQuantityIsOne ==
    (Tab1Ran /\ tab1.table.kind = "stats" /\ widgets.quantity_col = "None") =>
        tab1.table = StatsWithQuantityOfOnes

\* Three rows, one of them without a usable Price, no Quantity column mapped.
C7_Witness ==
    /\ Tab1Ran
    /\ tab1.table.kind = "stats"
    /\ widgets.quantity_col = "None"
    /\ tab1.table.TotalTransactions = 3
    /\ tab1.table.TotalRevenue = Num(3000)
    /\ tab1.table.TotalQuantitySold = 3
    /\ \E i \in 1..3 : tab1.analyzer.df.rows[i]["Price"] = Missing

\* C8: a row whose Price or Quantity is missing counts neither in the sum nor
\* in the number of rows of a reported average.
C8_MissingNotZero ==
    (Tab1Ran /\ tab1.table.kind = "stats") =>
        /\ tab1.table.AverageUnitPrice = Mean(ColCells(tab1.analyzer.df, "Price"))
        /\ tab1.table.AverageTransactionValue
               = Mean(ColCells(tab1.analyzer.df, "Total_Price"))

(***************************************************************************)
(* FlexibleDataAnalysis as an object: it is constructed on a sheet whose   *)
(* columns already carry the canonical names, then its methods are called. *)
(***************************************************************************)
MaxFigures == 5

\* The number of cells in the first k runs <<label, count>>
RunEnd(runs, k) == SumSeq([j \in 1..k |-> runs[j][2]])

\* The cells of a column given as runs <<label, count>>
Expand(runs) ==
    [i \in 1..RunEnd(runs, Len(runs)) |->
        Str(runs[CHOOSE k \in 1..Len(runs) :
                     RunEnd(runs, k - 1) < i /\ i <= RunEnd(runs, k)][1])]

\* An Item or Type cell: the same word in two spellings, row after row
WordCell(i) == Str(IF i % 2 = 1 THEN "Pen" ELSE "pen")

\* A cell of an optional column that holds text
TextCell(i) == Str(IF i % 2 = 1 THEN "Cash" ELSE "cash")

\* A sheet of n rows with Item and Price and the extra columns of `kinds`
\* (column -> "text" or "numbers"), in the order of `extra`.
SmallSheet(n, extra, kinds) ==
    [cols |-> <<"Item", "Price">> \o extra,
     rows |-> [i \in 1..n |->
                  [c \in {"Item", "Price"} \cup SeqToSet(extra) |->
                      CASE c = "Item"  -> WordCell(i)
                        [] c = "Price" -> Number(10)
                        [] c = "Type"  -> WordCell(i)
                        [] OTHER -> IF kinds[c] = "text" THEN TextCell(i) ELSE Number(10)]]]

ExtraColumns == <<"Type">> \o OptionalColumns

\* Two rows (each spelling once) or five (a column of few distinct values)
SheetLengths == {2, 5}

SmallSheets ==
    {SmallSheet(n, SelectSeq(ExtraColumns, LAMBDA c : kinds[c] # "absent"), kinds) :
        n \in SheetLengths,
        kinds \in {k \in [SeqToSet(ExtraColumns) -> {"absent", "text", "numbers"}] :
                      k["Type"] # "numbers"}}

SmallLabels ==
    <<"s01", "s02", "s03", "s04", "s05", "s06", "s07", "s08", "s09",
      "s10", "s11", "s12", "s13", "s14", "s15", "s16", "s17", "s18">>

\* Source columns of many labels: nb large ones, ns small ones of the same
\* count, and possibly a label that is itself called Others.
WideRuns ==
    {SubSeq(<<<<"Cash", 60>>, <<"card", 60>>>>, 1, nb)
     \o [i \in 1..ns |-> <<SmallLabels[i], c>>]
     \o o :
        nb \in {1, 2}, ns \in {13, 14, 18}, c \in {1, 2},
        o \in {<<>>, <<<<"Others", 1>>>>, <<<<"others", 30>>>>}}

WideSheet(runs) ==
    LET source == Expand(runs)
    IN  [cols |-> <<"Item", "Price", "Source">>,
         rows |-> [i \in 1..Len(source) |->
                      [c \in {"Item", "Price", "Source"} |->
                          CASE c = "Item"  -> Str("pen")
                            [] c = "Price" -> Number(10)
                            [] OTHER -> source[i]]]]

ChartSheets == SmallSheets \cup {WideSheet(r) : r \in WideRuns}

\* lines 375 and 452-455: the sheet is loaded, Quantity defaults to 1 and the
\* analyzer is constructed
construct ==
    /\ analyzer = <<>>
    /\ \E sheet \in ChartSheets :
           analyzer' = FlexibleDataAnalysis(with_default_quantity(load_excel_sheet(sheet)))
    /\ last_call' = [method |-> "__init__", arg |-> "", value |-> <<>>, before |-> figures]
    /\ UNCHANGED <<figures, uploaded_file, widgets, col_map, pc, tab1, tab2, salesVars, webVars>>

call_basic_statistics ==
    /\ analyzer # <<>>
    /\ last_call' = [method |-> "basic_statistics", arg |-> "",
                     value |-> basic_statistics(analyzer), before |-> figures]
    /\ UNCHANGED <<analyzer, figures, uploaded_file, widgets, col_map, pc, tab1, tab2,
                   salesVars, webVars>>

call_create_pie_chart ==
    /\ analyzer # <<>>
    /\ \E i \in 1..Len(OptionalColumns) :
        LET fig == create_pie_chart(analyzer.df, OptionalColumns[i])
        IN  /\ figures + fig.opened <= MaxFigures
            /\ figures' = figures + fig.opened
            /\ last_call' = [method |-> "create_pie_chart", arg |-> OptionalColumns[i],
                             value |-> fig, before |-> figures]
    /\ UNCHANGED <<analyzer, uploaded_file, widgets, col_map, pc, tab1, tab2, salesVars, webVars>>

call_generate_presentation ==
    /\ analyzer # <<>>
    /\ figures + figures_left_open(analyzer) <= MaxFigures
    /\ figures' = figures + figures_left_open(analyzer)
    /\ last_call' = [method |-> "generate_presentation", arg |-> "",
                     value |-> generate_presentation(analyzer), before |-> figures]
    /\ UNCHANGED <<analyzer, uploaded_file, widgets, col_map, pc, tab1, tab2, salesVars, webVars>>

ChartNext ==
    construct \/ call_basic_statistics \/ call_create_pie_chart \/ call_generate_presentation

(***************************************************************************)
(* Properties of the charts, the presentation and the statistics.          *)
(***************************************************************************)
\* The column a chart was asked for, and its labels with their counts, taken
\* from the cells without regard to letter case.
PieCells == ColCells(analyzer.df, last_call.arg)

PieLabels == {Lower(PieCells[i].s) : i \in {j \in 1..Len(PieCells) : PieCells[j].t = "str"}}

PieCount(label) ==
    Cardinality({i \in 1..Len(PieCells) : PieCells[i].t = "str" /\ Lower(PieCells[i].s) = label})

PieTotal == Cardinality({i \in 1..Len(PieCells) : PieCells[i].t = "str"})

\* A category that contributes less than 1% of the total count
PieSmall(label) == 100 * PieCount(label) < PieTotal

Slices == last_call.value.slices

SliceSet == {<<Slices[i].label, Slices[i].count>> : i \in 1..Len(Slices)}

PieDrawn == last_call.method = "create_pie_chart" /\ last_call.value.kind = "figure"

\* C15: with more than 15 categories, every category under 1% of the total is
\* merged into exactly one 'others' slice (a category is never a slice of its
\* own then, and every other category is one, with its count); the slices
\* are in descending order of count; 20 categories of which 18 are under 1%
\* give at most 16 slices; with 15 or fewer categories nothing is merged.
C15_SmallSlicesMerged ==
    PieDrawn =>
        /\ \A i, j \in 1..Len(Slices) : i < j => Slices[i].count >= Slices[j].count
        /\ Cardinality(PieLabels) <= PieMaxCategories =>
              /\ Len(Slices) = Cardinality(PieLabels)
              /\ SliceSet = {<<l, PieCount(l)>> : l \in PieLabels}
        /\ Cardinality(PieLabels) > PieMaxCategories =>
              /\ \A i \in 1..Len(Slices) :
                    Slices[i].label # "others" =>
                        /\ Slices[i].label \in PieLabels
                        /\ ~PieSmall(Slices[i].label)
                        /\ Slices[i].count = PieCount(Slices[i].label)
              /\ \A l \in PieLabels \ {"others"} :
                    ~PieSmall(l) => <<l, PieCount(l)>> \in SliceSet
              /\ (\E l \in PieLabels : PieSmall(l)) =>
                    /\ Cardinality({i \in 1..Len(Slices) : Slices[i].label = "others"}) = 1
                    /\ "others" \notin PieLabels =>
                          \E i \in 1..Len(Slices) :
                              /\ Slices[i].label = "others"
                              /\ Slices[i].count
                                     = Cardinality({k \in 1..Len(PieCells) :
                                           /\ PieCells[k].t = "str"
                                           /\ PieSmall(Lower(PieCells[k].s))})
              /\ (\A l \in PieLabels : ~PieSmall(l)) =>
                    SliceSet = {<<l, PieCount(l)>> : l \in PieLabels}
        /\ (/\ Cardinality(PieLabels) = 20
            /\ Cardinality({l \in PieLabels : PieSmall(l)}) = 18) => Len(Slices) <= 16

\* Twenty categories, eighteen of them with one row in 138: three slices.
C15_Witness ==
    /\ PieDrawn
    /\ Cardinality(PieLabels) = 20
    /\ Cardinality({l \in PieLabels : PieSmall(l)}) = 18
    /\ Len(Slices) = 3
    /\ Slices[3] = [label |-> "others", count |-> 18]

\* C16: when generate_presentation has finished, as many figures are open
\* as before the call.
C16_NoFigureLeak ==
    last_call.method = "generate_presentation" => figures = last_call.before

\* The titles of the charts of the optional columns the table has, in order
PresentTitles ==
    LET present == {i \in 1..Len(OptionalColumns) : HasColumn(analyzer.df, OptionalColumns[i])}
        Ordered[k \in 0..Len(OptionalColumns)] ==
            IF k = 0 THEN <<>>
            ELSE IF k \in present THEN Append(Ordered[k - 1], ChartTitles[k])
            ELSE Ordered[k - 1]
    IN  Ordered[Len(OptionalColumns)]

\* C18: the presentation has the title slide, the statistics slide and then
\* exactly one chart slide for each optional column the table has, in the
\* order Source, Status, Transaction_Status, Payment_Mode, Product_Name.
C18_OneSlidePerOptionalColumn ==
    last_call.method = "generate_presentation" =>
        /\ last_call.value.kind = "pptx"
        /\ last_call.value.slides = <<"title", "Basic Statistics">> \o PresentTitles

\* The values of a column when letter case is disregarded
CaseFolded(cells) ==
    {IF cells[i].t = "str" THEN Str(Lower(cells[i].s)) ELSE cells[i] : i \in 1..Len(cells)}

\* C19: cells that differ only in letter case count as one value in Total
\* Unique Items and in Number of Categories, whatever dtype load_excel_sheet
\* gave the column.
C19_CaseInsensitiveCounts ==
    (last_call.method = "basic_statistics" /\ last_call.value.kind = "stats") =>
        /\ last_call.value.TotalUniqueItems
               = Cardinality(CaseFolded(ColCells(analyzer.df, "Item")))
        /\ HasColumn(analyzer.df, "Type") =>
               last_call.value.NumberOfCategories
                   = Cardinality(CaseFolded(ColCells(analyzer.df, "Type")))

\* C23: collapsing into 'others' preserves the total: the counts of the
\* slices of a drawn pie add up to the number of non-empty cells of the
\* column (so that the percentages, each slice over the slice total, are
\* shares of the whole column and sum to 100), also when the column already
\* has a category named 'others'.
C23_CollapsePreservesTotal ==
    PieDrawn => SumSeq(Column(Slices, "count")) = PieTotal

(***************************************************************************)
(* app.py: the Flask upload handler.  Flask serves each request on its own *)
(* thread, so the handler is cut at its file operations; each step below   *)
(* is one of them with the code around it.                                 *)
(***************************************************************************)
MaxTime == 1

\* Client file names; the last one is not an allowed type.
FileNames == {"a.xlsx", "b.xlsx", "notes.txt"}

\* What a workbook is to AmazonSalesAnalysis: "good" loads and reports,
\* "unreadable" fails load_data, "no_sales" loads (Date, Category and Product are
\* there) and fails in generate_excel_report.
UploadKinds == {"good", "unreadable", "no_sales"}

allowed_file(filename) == filename \in {"a.xlsx", "b.xlsx"}

\* 'sales_analysis_report.xlsx' in the working directory of the process
ReportFile == <<"sales_analysis_report.xlsx">>

Exists(path) == path \in DOMAIN fs

\* open(path, 'wb') and write: the file is created or replaced
Write(files, path, content) == (path :> content) @@ files

Remove(files, path) == [q \in DOMAIN files \ {path} |-> files[q]]

SetReq(r, rec) == req' = [req EXCEPT ![r] = rec]

\* Lines 35-53: the file is checked, named after the clock and saved.
unique_filepath(r, filename) == <<"secure_uploads", now, filename>>

save_upload(r) ==
    /\ req[r].pc = "new"
    /\ \E filename \in FileNames, kind \in UploadKinds :
        IF ~allowed_file(filename)
        THEN /\ SetReq(r, [req[r] EXCEPT !.pc = "done", !.filename = filename, !.kind = kind,
                                         !.flash = "Allowed file types are .xlsx and .xls"])
             /\ fs' = fs
        ELSE /\ SetReq(r, [req[r] EXCEPT !.pc = "saved", !.filename = filename, !.kind = kind,
                                         !.filepath = unique_filepath(r, filename)])
             /\ fs' = Write(fs, unique_filepath(r, filename),
                            [is |-> "upload", of |-> r, kind |-> kind])
    /\ UNCHANGED <<now, salesVars, flexVars>>

\* Lines 57-58 and 67-68: load_data reads the file at filepath, whatever it holds now.
web_load_data(r) ==
    /\ req[r].pc = "saved"
    /\ IF Exists(req[r].filepath) /\ fs[req[r].filepath].kind # "unreadable"
       THEN SetReq(r, [req[r] EXCEPT
                !.pc = "loaded",
                !.analyzer = fs[req[r].filepath],
                !.output_path = <<"secure_uploads", "analysis", req[r].filepath[2],
                                  req[r].filepath[3]>>])
       ELSE SetReq(r, [req[r] EXCEPT !.pc = "finally",
                                     !.flash = "Error processing the file"])
    /\ UNCHANGED <<fs, now, salesVars, flexVars>>

\* Line 61: generate_excel_report writes the report under its fixed name; its
\* result is not looked at.  When a sheet cannot be computed the file is left
\* behind without its sheets.
generate_excel_report(r) ==
    /\ req[r].pc = "loaded"
    /\ fs' = Write(fs, ReportFile,
                   [is   |-> IF req[r].analyzer.kind = "good" THEN "report" ELSE "partial",
                    of   |-> req[r].analyzer.of,
                    kind |-> req[r].analyzer.kind])
    /\ SetReq(r, [req[r] EXCEPT !.pc = "generated"])
    /\ UNCHANGED <<now, salesVars, flexVars>>

\* Line 63: os.rename of the report to output_path; FileNotFoundError is caught
\* at line 69.
rename_report(r) ==
    /\ req[r].pc = "generated"
    /\ IF Exists(ReportFile)
       THEN /\ fs' = Remove(Write(fs, req[r].output_path, fs[ReportFile]), ReportFile)
            /\ SetReq(r, [req[r] EXCEPT !.pc = "renamed"])
       ELSE /\ fs' = fs
            /\ SetReq(r, [req[r] EXCEPT !.pc = "finally",
                                        !.flash = "An error occurred while processing the file"])
    /\ UNCHANGED <<now, salesVars, flexVars>>

\* Lines 64-66: send_file opens the file at output_path.
send_file(r) ==
    /\ req[r].pc = "renamed"
    /\ IF Exists(req[r].output_path)
       THEN SetReq(r, [req[r] EXCEPT !.pc = "finally", !.response = <<fs[req[r].output_path]>>])
       ELSE SetReq(r, [req[r] EXCEPT !.pc = "finally",
                                     !.flash = "An error occurred while processing the file"])
    /\ UNCHANGED <<fs, now, salesVars, flexVars>>

\* Lines 71-76: the uploaded file is removed, errors ignored.
cleanup(r) ==
    /\ req[r].pc = "finally"
    /\ fs' = Remove(fs, req[r].filepath)
    /\ SetReq(r, [req[r] EXCEPT !.pc = "done"])
    /\ UNCHANGED <<now, salesVars, flexVars>>

\* time.time() moves on
tick ==
    /\ now < MaxTime
    /\ now' = now + 1
    /\ UNCHANGED <<fs, req, salesVars, flexVars>>

WebInit ==
    /\ FlexIdle
    /\ WebIdle
    /\ df = None
    /\ call = "__init__"
    /\ arg = 0
    /\ ret = None
    /\ report = None
    /\ png = FALSE

upload_file ==
    \E r \in Requests :
        \/ save_upload(r)
        \/ web_load_data(r)
        \/ generate_excel_report(r)
        \/ rename_report(r)
        \/ send_file(r)
        \/ cleanup(r)

WebNext == upload_file \/ tick

(***************************************************************************)
(* api/main.py: the FastAPI upload endpoint.  upload_file is a coroutine   *)
(* without an await, so a call runs from its first line to the end of its  *)
(* finally block before another call starts; the response it returned is   *)
(* sent afterwards.                                                        *)
(***************************************************************************)
\* file.filename.endswith(('.xlsx', '.xls'))
EndsWithExcel(filename) == filename \in {"a.xlsx", "b.xlsx"}

\* UPLOAD_DIR / file.filename
api_file_path(filename) == <<"uploads", filename>>

\* analyzer.load_data(): False when the workbook cannot be read
api_load_data(kind) == kind # "unreadable"

\* HTTPException(status_code, detail), an Exception; `caught` names the
\* exception it was raised in answer to, if any
HTTPException(status_code, detail) ==
    [status |-> status_code, detail |-> detail, caught |-> ""]

\* FileResponse(path=...): the file is opened only when the response is sent
FileResponse(path) == [status |-> 200, path |-> path, caught |-> ""]

\* Lines 42-54: the try block returns a FileResponse or raises, and leaves
\* the files it wrote.  generate_excel_report writes the report under its
\* fixed name (without its sheets when one cannot be computed) and its
\* result is not looked at.
api_try(files, filename, kind) ==
    IF api_load_data(kind)
    THEN [raised |-> "",
          value  |-> FileResponse(ReportFile),
          files  |-> Write(files, ReportFile,
                           [is   |-> IF kind = "good" THEN "report" ELSE "partial",
                            of   |-> filename,
                            kind |-> kind])]
    ELSE [raised |-> "HTTPException",
          value  |-> HTTPException(400, "Failed to analyze file"),
          files  |-> files]

\* Lines 55-56: `except Exception as e` catches whatever the try block
\* raised, an HTTPException included, and raises one of status 500 whose
\* detail ends in str(e).
api_except(tried) ==
    IF tried.raised = "" THEN tried.value
    ELSE [HTTPException(500, "Error processing file") EXCEPT !.caught = tried.raised]

\* Lines 57-62: both unlinks are in one try, so the first that fails ends the
\* clean-up.
api_finally(files, file_path) ==
    IF file_path \notin DOMAIN files THEN files
    ELSE IF ReportFile \notin DOMAIN files THEN Remove(files, file_path)
    ELSE Remove(Remove(files, file_path), ReportFile)

\* POST /upload/, lines 25-62
api_upload_file(r) ==
    /\ req[r].pc = "new"
    /\ \E filename \in FileNames, kind \in UploadKinds :
        IF ~EndsWithExcel(filename)
        THEN /\ SetReq(r, [req[r] EXCEPT
                    !.pc = "done", !.filename = filename, !.kind = kind,
                    !.response = <<HTTPException(400, "Invalid file type")>>])
             /\ fs' = fs
        ELSE LET saved == Write(fs, api_file_path(filename),
                                [is |-> "upload", of |-> r, kind |-> kind])
                 tried == api_try(saved, filename, kind)
                 response == api_except(tried)
             IN  /\ fs' = api_finally(tried.files, api_file_path(filename))
                 /\ SetReq(r, [req[r] EXCEPT
                        !.pc = IF response.status = 200 THEN "responding" ELSE "done",
                        !.filename = filename, !.kind = kind,
                        !.filepath = api_file_path(filename),
                        !.analyzer = IF api_load_data(kind) THEN "loaded" ELSE "load_data False",
                        !.response = <<response>>])
    /\ UNCHANGED <<now, salesVars, flexVars>>

\* The response is sent: FileResponse looks its file up now, and a file that
\* is not there is a RuntimeError, which the server answers with status 500.
api_send_response(r) ==
    /\ req[r].pc = "responding"
    /\ SetReq(r, [req[r] EXCEPT
            !.pc = "done",
            !.response = <<IF Exists(req[r].response[1].path)
                           THEN [status |-> 200, detail |-> "", caught |-> "",
                                 body |-> fs[req[r].response[1].path]]
                           ELSE [status |-> 500, detail |-> "Internal Server Error",
                                 caught |-> "RuntimeError"]>>])
    /\ UNCHANGED <<fs, now, salesVars, flexVars>>

ApiNext == \E r \in Requests : api_upload_file(r) \/ api_send_response(r)

(***************************************************************************)
(* Properties of the upload handler.                                       *)
(***************************************************************************)
\* C5: the report a request returns is the analysis of the file that request
\* uploaded.
C5_OwnReport ==
    \A r \in Requests :
        req[r].response # <<>> => req[r].response[1].of = r

\* C17: once every request has finished, none of the files the requests
\* created (saved upload, generated report) is left on disk.
C17_NoFilesLeft ==
    (\A r \in Requests : req[r].pc \in {"new", "done"}) => DOMAIN fs = {}

\* C20: a report is sent only when generate_excel_report succeeded: what is
\* served is a complete report, never a partial one.
C20_ServedOnlyOnSuccess ==
    \A r \in Requests :
        req[r].response # <<>> =>
            /\ req[r].response[1].is = "report"
            /\ req[r].response[1].kind = "good"

\* A request whose upload has been saved and not yet cleaned up
InFlight(r) == req[r].pc \in {"saved", "loaded", "generated", "renamed", "finally"}

\* C22: two requests in flight never have the same stored path, whatever
\* their client file names and the times at which they arrived.
C22_UniqueStoredPath ==
    \A r1, r2 \in Requests :
        (r1 # r2 /\ InFlight(r1) /\ InFlight(r2)) => req[r1].filepath # req[r2].filepath

\* C21: in the FastAPI endpoint, a request whose load_data() returned False
\* is answered with status 400 and detail 'Failed to analyze file'; and an
\* answer of status 500 made by the handler comes from an exception other
\* than the handler's own HTTPException.
C21_LoadFailureIs400 ==
    \A r \in Requests :
        (req[r].response # <<>> /\ req[r].analyzer # "") =>
            /\ req[r].analyzer = "load_data False" =>
                   /\ req[r].response[1].status = 400
                   /\ req[r].response[1].detail = "Failed to analyze file"
            /\ req[r].response[1].status = 500 =>
                   req[r].response[1].caught # "HTTPException"

vars == <<salesVars, flexVars, webVars>>

SpecSales == SalesInit /\ [][SalesNext]_vars

SpecReport == SalesInit /\ [][ReportNext]_vars

SpecFlexMap == FlexInit /\ [][FlexMapNext]_vars

SpecFlexStat == FlexInit /\ [][FlexStatNext]_vars

SpecCharts == FlexInit /\ [][ChartNext]_vars

SpecWeb == WebInit /\ [][WebNext]_vars

SpecApi == WebInit /\ [][ApiNext]_vars

====
